---- MODULE Spec2Model ----
(***************************************************************************)
(* Model of deepface-microservice/api.py: the two request handlers         *)
(* (/detect-face and /verify), the two image resolvers and the policy      *)
(* checks applied to the output of the external recognition engine.        *)
(*                                                                         *)
(* One request is in flight at a time (requests share no mutable state).   *)
(* A handler is a sequence of steps; every call of an external             *)
(* collaborator (requests, base64, cv2, DeepFace) is one step whose        *)
(* outcome is chosen by the environment, and is appended to `calls`.       *)
(*                                                                         *)
(* Conventions                                                             *)
(*   - a string is a sequence of one-character strings;                    *)
(*   - an optional value (a dict key that may be absent, a local that may  *)
(*     be unbound) is a sequence of length 0 or 1;                         *)
(*   - a ratio is the exact fraction <<numerator, denominator>>; for the   *)
(*     heights used here (denominators below 40) Python's float division,  *)
(*     `< 0.50`, int(ratio*100) and round(ratio, 2) agree with the exact   *)
(*     arithmetic below, round() being round-half-even on the exactly      *)
(*     representable ties k/8.                                             *)
(***************************************************************************)
EXTENDS Integers, Sequences, FiniteSets, TLC

VARIABLES
    pc,         \* position of the request in its handler
    endpoint,   \* "none", "detect" or "verify"
    payload,    \* the JSON body of the request
    b64arg,     \* the string handed to base64.b64decode (optional)
    baseimage,  \* height of the image resolved from regimg (optional)
    img,        \* height of the image resolved from img / verimg (optional)
    faces,      \* list returned by DeepFace.extract_faces (optional)
    result,     \* dict returned by DeepFace.verify (optional)
    ratio,      \* the local `ratio` of perform_verification (optional)
    exc,        \* the exception the response was built from: its type ("" if
                \* none) and its message
    response,   \* the HTTP response (optional)
    calls       \* external calls made by the request, in order

vars == <<pc, endpoint, payload, b64arg, baseimage, img, faces, result, ratio,
          exc, response, calls>>

----------------------------------------------------------------------------
(* Bounds *)

MaxLen == 5

MaxImgHeight == 6

MaxFaceHeight == 2

MaxFaces == 2

(* Characters of a payload: "A" is a character of the base64 alphabet,     *)
(* "," is the separator of a data-URI prefix (not in the alphabet).        *)
Alphabet == {"A", ","}

Strings == UNION {[1..n -> Alphabet] : n \in 0..MaxLen}

Urls == {<<"h">>}

ImgHeights == 1..MaxImgHeight

FaceHeights == 0..MaxFaceHeight

Scores == {93}

Distances == {25, 80}

Thresholds == {68}

Times == {2}

EngineMsgs == {"Face could not be detected", "Spoof detected in given image"}

----------------------------------------------------------------------------
(* Optional values and dict.get *)

None == <<>>

Some(v) == <<v>>

Opt(S) == {None} \cup {Some(v) : v \in S}

Get(opt, default) == IF Len(opt) = 0 THEN default ELSE opt[1]

(* The dicts the engine returns.  Every key the handlers read with .get()  *)
(* may be absent.                                                          *)
Areas == [h : Opt(FaceHeights)]

FaceDicts == [is_real : Opt(BOOLEAN), antispoof_score : Opt(Scores),
              facial_area : Opt(Areas)]

FaceLists == UNION {[1..n -> FaceDicts] : n \in 0..MaxFaces}

VerifyResults == [verified : BOOLEAN, distance : Distances,
                  threshold : Thresholds, time : Times,
                  facial_areas : Opt([img2 : Opt(Areas)])]

----------------------------------------------------------------------------
(* Responses *)

HTTPException(status_code, kind, value, text) ==
    [status |-> status_code, kind |-> kind, value |-> value, text |-> text,
     body |-> None]

Ok(body) ==
    [status |-> 200, kind |-> "ok", value |-> None, text |-> "",
     body |-> Some(body)]

----------------------------------------------------------------------------
(* Arithmetic on ratios *)

Ratio(n, d) == <<n, d>>

(* Variant: the comparison is not strict. *)
LessOrEqual(r, s) == r[1] * s[2] <= s[1] * r[2]

Less(r, s) == r[1] * s[2] < s[1] * r[2]

MIN_HEIGHT_RATIO == Ratio(1, 2)

(* Variant: the ratio is rounded to the nearest percent, not truncated. *)
PercentRounded(r) == (200 * r[1] + r[2]) \div (2 * r[2])

(* int(ratio*100) *)
Percent(r) == (100 * r[1]) \div r[2]

(* Variant: the ratio is truncated to 2 decimals, not rounded. *)
Round2Truncated(r) == (100 * r[1]) \div r[2]

(* round(ratio, 2), in hundredths: nearest, ties to even *)
Round2(r) ==
    LET n == 200 * r[1] + r[2]
        q == n \div (2 * r[2])
    IN  IF n % (2 * r[2]) = 0 /\ q % 2 = 1 THEN q - 1 ELSE q

----------------------------------------------------------------------------
(* read_image_from_base64 *)

RECURSIVE Split(_, _)
Split(s, sep) ==
    IF \A i \in 1..Len(s) : s[i] # sep
    THEN <<s>>
    ELSE LET i == CHOOSE k \in 1..Len(s) :
                      s[k] = sep /\ \A j \in 1..(k - 1) : s[j] # sep
         IN  <<SubSeq(s, 1, i - 1)>> \o Split(SubSeq(s, i + 1, Len(s)), sep)

Contains(s, c) == \E i \in 1..Len(s) : s[i] = c

StripDataUri(b64_string) ==
    IF Contains(b64_string, ",") THEN Split(b64_string, ",")[2] ELSE b64_string

(* base64.b64decode(s) with validate=False: characters outside the         *)
(* alphabet are discarded, then the data characters must come in groups    *)
(* of four, each group giving three bytes.  The result is the number of    *)
(* bytes, or None for binascii.Error.                                      *)
DataChars(s) == SelectSeq(s, LAMBDA c : c = "A")

B64Decode(s) ==
    IF Len(DataChars(s)) % 4 # 0 THEN None
    ELSE Some(3 * (Len(DataChars(s)) \div 4))

(* Outcomes of cv2.imdecode on a buffer of n bytes: an empty buffer makes  *)
(* it raise; otherwise the bytes are an image of some height, or not an    *)
(* image (it returns None).                                                *)
ImDecode(n) ==
    IF n = 0 THEN {[exc |-> "cv2.error", img |-> None]}
    ELSE {[exc |-> "", img |-> None]} \cup
         {[exc |-> "", img |-> Some(hh)] : hh \in ImgHeights}

(* Variant: no except clause around the decoding, so that a failure        *)
(* reaches the framework as an unhandled exception (a 500).                *)
ReadImageFromBase64Unguarded(s) ==
    LET arg == StripDataUri(s)
        bytes == B64Decode(arg)
        fail(e, cs) == [img |-> None, arg |-> arg, exc |-> e, calls |-> cs,
                        error |-> Some(HTTPException(500, "internal", None, e))]
    IN  IF bytes = None
        THEN {fail("binascii.Error", <<"base64.b64decode">>)}
        ELSE {IF d.exc # "" THEN fail(d.exc, <<"base64.b64decode", "cv2.imdecode">>)
              ELSE IF d.img = None
                   THEN fail("ValueError", <<"base64.b64decode", "cv2.imdecode">>)
                   ELSE [img |-> d.img, arg |-> arg, exc |-> "",
                         calls |-> <<"base64.b64decode", "cv2.imdecode">>,
                         error |-> None]
              : d \in ImDecode(bytes[1])}

(* The set of outcomes of read_image_from_base64(s): the image, or the     *)
(* HTTPException built by its except clause, with the calls it made.       *)
ReadImageFromBase64(s) ==
    LET arg == StripDataUri(s)
        bytes == B64Decode(arg)
        fail(e, cs) == [img |-> None, arg |-> arg, exc |-> e, calls |-> cs,
                        error |-> Some(HTTPException(400, "invalid_base64", None, e))]
    IN  IF bytes = None
        THEN {fail("binascii.Error", <<"base64.b64decode">>)}
        ELSE {IF d.exc # "" THEN fail(d.exc, <<"base64.b64decode", "cv2.imdecode">>)
              ELSE IF d.img = None
                   THEN fail("ValueError", <<"base64.b64decode", "cv2.imdecode">>)
                   ELSE [img |-> d.img, arg |-> arg, exc |-> "",
                         calls |-> <<"base64.b64decode", "cv2.imdecode">>,
                         error |-> None]
              : d \in ImDecode(bytes[1])}

----------------------------------------------------------------------------
(* read_image_from_url: the outcomes of requests.get, raise_for_status     *)
(* and cv2.imdecode.                                                       *)
ReadImageFromUrl(url) ==
    LET fail(e, cs) == [img |-> None, exc |-> e, calls |-> cs,
                        error |-> Some(HTTPException(400, "fetch_error", None, e))]
    IN  {fail("ConnectionError", <<"requests.get">>),
         fail("HTTPError", <<"requests.get">>),
         fail("cv2.error", <<"requests.get", "cv2.imdecode">>),
         fail("ValueError", <<"requests.get", "cv2.imdecode">>)} \cup
        {[img |-> Some(hh), exc |-> "", calls |-> <<"requests.get", "cv2.imdecode">>,
          error |-> None] : hh \in ImgHeights}

----------------------------------------------------------------------------
NoException == [type |-> "", msg |-> ""]

Init ==
    /\ pc = "idle"
    /\ endpoint = "none"
    /\ payload = None
    /\ b64arg = None
    /\ baseimage = None
    /\ img = None
    /\ faces = None
    /\ result = None
    /\ ratio = None
    /\ exc = NoException
    /\ response = None
    /\ calls = <<>>

(* A new request: every entity is request-scoped. *)
Fresh ==
    /\ b64arg' = None
    /\ baseimage' = None
    /\ img' = None
    /\ faces' = None
    /\ result' = None
    /\ ratio' = None
    /\ exc' = NoException
    /\ response' = None
    /\ calls' = <<>>

(* The handler ends with response r, built from an exception of type e     *)
(* with message m ("" and "" for a success).                               *)
Finish(r, e, m) ==
    /\ pc' = "done"
    /\ response' = Some(r)
    /\ exc' = [type |-> e, msg |-> m]

----------------------------------------------------------------------------
(* POST /detect-face *)

StartDetect ==
    /\ pc = "idle"
    /\ \E s \in Strings : payload' = [img |-> s]
    /\ endpoint' = "detect"
    /\ pc' = "d_decode"
    /\ Fresh

(* img_arr = read_image_from_base64(payload.img), outside the try block:   *)
(* its HTTPException goes to the caller as it is.                          *)
DetectDecode ==
    /\ pc = "d_decode"
    /\ \E o \in ReadImageFromBase64(payload.img) :
          /\ b64arg' = Some(o.arg)
          /\ calls' = calls \o o.calls
          /\ img' = o.img
          /\ IF o.error # None
             THEN Finish(o.error[1], o.exc, "")
             ELSE pc' = "d_extract" /\ UNCHANGED <<response, exc>>
    /\ UNCHANGED <<endpoint, payload, baseimage, faces, result, ratio>>

(* What detect_face reads from faces[0]. *)
IsReal(face_data) == Get(face_data.is_real, TRUE)

AntispoofScore(face_data) == Get(face_data.antispoof_score, 0)

FaceHeight(face_data) == Get(Get(face_data.facial_area, [h |-> None]).h, 0)

(* The except clauses of detect_face, in their order. *)
DetectExcept(e, http, msg) ==
    IF e = "ValueError"
    THEN HTTPException(400, "no_face", None, "")
    ELSE IF e = "HTTPException"
         THEN http
         ELSE HTTPException(500, "internal", None, msg)

(* Variant: the anti-spoofing check on faces[0] comes before the count     *)
(* check.                                                                  *)
DetectExtractLivenessFirst ==
    /\ pc = "d_extract"
    /\ calls' = Append(calls, "DeepFace.extract_faces")
    /\ \/ /\ \E e \in {"ValueError", "RuntimeError"}, m \in EngineMsgs :
                Finish(DetectExcept(e, None, m), e, m)
          /\ UNCHANGED faces
       \/ \E fs \in FaceLists :
             /\ faces' = Some(fs)
             /\ IF Len(fs) = 0
                THEN Finish(DetectExcept("IndexError", None,
                                "list index out of range"),
                            "IndexError", "list index out of range")
                ELSE IF IsReal(fs[1]) = FALSE
                     THEN Finish(DetectExcept("HTTPException",
                              HTTPException(400, "spoof", None, ""), ""),
                              "HTTPException", "")
                     ELSE IF Len(fs) > 1
                          THEN Finish(DetectExcept("HTTPException",
                                   HTTPException(400, "multiple_faces",
                                       Some(Len(fs)), ""), ""),
                                   "HTTPException", "")
                          ELSE pc' = "d_liveness" /\ UNCHANGED <<response, exc>>
    /\ UNCHANGED <<endpoint, payload, b64arg, baseimage, img, result, ratio>>

(* DeepFace.extract_faces, then the face-count check and faces[0]. *)
DetectExtract ==
    /\ pc = "d_extract"
    /\ calls' = Append(calls, "DeepFace.extract_faces")
    /\ \/ /\ \E e \in {"ValueError", "RuntimeError"}, m \in EngineMsgs :
                Finish(DetectExcept(e, None, m), e, m)
          /\ UNCHANGED faces
       \/ \E fs \in FaceLists :
             /\ faces' = Some(fs)
             /\ IF Len(fs) > 1
                THEN Finish(DetectExcept("HTTPException",
                         HTTPException(400, "multiple_faces", Some(Len(fs)), ""), ""),
                         "HTTPException", "")
                ELSE IF Len(fs) = 0
                     THEN Finish(DetectExcept("IndexError", None,
                                     "list index out of range"),
                                 "IndexError", "list index out of range")
                     ELSE pc' = "d_liveness" /\ UNCHANGED <<response, exc>>
    /\ UNCHANGED <<endpoint, payload, b64arg, baseimage, img, result, ratio>>

(* The anti-spoofing check on faces[0]; the score goes to the log only. *)
DetectLiveness ==
    /\ pc = "d_liveness"
    /\ LET face_data == faces[1][1]
           is_real == IsReal(face_data)
       IN  IF is_real = FALSE
           THEN Finish(DetectExcept("HTTPException",
                    HTTPException(400, "spoof", None, ""), ""), "HTTPException", "")
           ELSE pc' = "d_size" /\ UNCHANGED <<response, exc>>
    /\ UNCHANGED <<endpoint, payload, b64arg, baseimage, img, faces, result,
                   ratio, calls>>

(* The size check on faces[0] and the success payload. *)
DetectSize ==
    /\ pc = "d_size"
    /\ LET face_data == faces[1][1]
           is_real == IsReal(face_data)
           antispoof_score == AntispoofScore(face_data)
           face_height == FaceHeight(face_data)
           height_ratio == Ratio(face_height, img[1])
       IN  IF Less(height_ratio, MIN_HEIGHT_RATIO)
           THEN Finish(DetectExcept("HTTPException",
                    HTTPException(400, "too_small", Some(Percent(height_ratio)), ""), ""),
                    "HTTPException", "")
           ELSE Finish(Ok([status |-> "success", is_real |-> is_real,
                           antispoof_score |-> antispoof_score,
                           face_height_ratio |-> Round2(height_ratio)]), "", "")
    /\ UNCHANGED <<endpoint, payload, b64arg, baseimage, img, faces, result,
                   ratio, calls>>

----------------------------------------------------------------------------
(* POST /verify *)

StartVerify ==
    /\ pc = "idle"
    /\ \E u \in Urls, s \in Strings : payload' = [regimg |-> u, verimg |-> s]
    /\ endpoint' = "verify"
    /\ pc' = "v_fetch"
    /\ Fresh

(* Variant: a failed fetch does not end the request. *)
VerifyFetchSwallowed ==
    /\ pc = "v_fetch"
    /\ \E o \in ReadImageFromUrl(payload.regimg) :
          /\ calls' = calls \o o.calls
          /\ baseimage' = o.img
    /\ pc' = "v_decode"
    /\ UNCHANGED <<endpoint, payload, b64arg, img, faces, result, ratio,
                   response, exc>>

(* baseimage = read_image_from_url(payload.regimg) *)
VerifyFetch ==
    /\ pc = "v_fetch"
    /\ \E o \in ReadImageFromUrl(payload.regimg) :
          /\ calls' = calls \o o.calls
          /\ baseimage' = o.img
          /\ IF o.error # None
             THEN Finish(o.error[1], o.exc, "")
             ELSE pc' = "v_decode" /\ UNCHANGED <<response, exc>>
    /\ UNCHANGED <<endpoint, payload, b64arg, img, faces, result, ratio>>

(* ver_arr = read_image_from_base64(payload.verimg) *)
VerifyDecode ==
    /\ pc = "v_decode"
    /\ \E o \in ReadImageFromBase64(payload.verimg) :
          /\ b64arg' = Some(o.arg)
          /\ calls' = calls \o o.calls
          /\ img' = o.img
          /\ IF o.error # None
             THEN Finish(o.error[1], o.exc, "")
             ELSE pc' = "v_engine" /\ UNCHANGED <<response, exc>>
    /\ UNCHANGED <<endpoint, payload, baseimage, faces, result, ratio>>

(* What perform_verification reads from the result: the face height of    *)
(* the probe image (img2), 0 when facial_areas, img2 or h is absent.       *)
Img2FaceHeight(res) ==
    Get(Get(Get(res.facial_areas, [img2 |-> None]).img2, [h |-> None]).h, 0)

(* Variant: the broad clause comes first and takes every exception. *)
VerifyExceptBroadFirst(e, http, msg) ==
    HTTPException(500, "internal", None, msg)

(* The except clauses of perform_verification, in their order. *)
VerifyExcept(e, http, msg) ==
    IF e = "ValueError"
    THEN HTTPException(400, "face_detection_error", None, msg)
    ELSE IF e = "HTTPException"
         THEN http
         ELSE HTTPException(500, "internal", None, msg)

(* perform_verification: DeepFace.verify *)
VerifyEngine ==
    /\ pc = "v_engine"
    /\ calls' = Append(calls, "DeepFace.verify")
    /\ \/ /\ \E m \in EngineMsgs :
                Finish(VerifyExcept("ValueError", None, m), "ValueError", m)
          /\ UNCHANGED result
       \/ /\ \E m \in EngineMsgs :
                Finish(VerifyExcept("RuntimeError", None, m), "RuntimeError", m)
          /\ UNCHANGED result
       \/ /\ \E r \in VerifyResults : result' = Some(r)
          /\ pc' = "v_ratio"
          /\ UNCHANGED <<response, exc>>
    /\ UNCHANGED <<endpoint, payload, b64arg, baseimage, img, faces, ratio>>

(* perform_verification: the ratio check on the probe image (img2).  The   *)
(* local `ratio` is bound only when a face height is reported.             *)
VerifyRatio ==
    /\ pc = "v_ratio"
    /\ LET ver_img_height == img[1]
           face_height == Img2FaceHeight(result[1])
       IN  IF face_height > 0
           THEN /\ ratio' = Some(Ratio(face_height, ver_img_height))
                /\ IF Less(Ratio(face_height, ver_img_height), MIN_HEIGHT_RATIO)
                   THEN Finish(VerifyExcept("HTTPException",
                            HTTPException(400, "too_small",
                                Some(Percent(Ratio(face_height, ver_img_height))), ""),
                            ""), "HTTPException", "")
                   ELSE pc' = "v_return" /\ UNCHANGED <<response, exc>>
           ELSE /\ pc' = "v_return"
                /\ UNCHANGED <<ratio, response, exc>>
    /\ UNCHANGED <<endpoint, payload, b64arg, baseimage, img, faces, result, calls>>

(* perform_verification: the returned dict; round(ratio, 2) reads `ratio`. *)
VerifyReturn ==
    /\ pc = "v_return"
    /\ IF ratio = None
       THEN Finish(VerifyExcept("UnboundLocalError", None, "ratio"),
                   "UnboundLocalError", "ratio")
       ELSE Finish(Ok([is_match |-> result[1].verified,
                       distance |-> result[1].distance,
                       threshold |-> result[1].threshold,
                       time |-> result[1].time,
                       ratio |-> Round2(ratio[1])]), "", "")
    /\ UNCHANGED <<endpoint, payload, b64arg, baseimage, img, faces, result,
                   ratio, calls>>

----------------------------------------------------------------------------
(* The response is sent: nothing of the request survives the exchange. *)
Respond ==
    /\ pc = "done"
    /\ pc' = "idle"
    /\ endpoint' = "none"
    /\ payload' = None
    /\ Fresh

----------------------------------------------------------------------------
Next ==
    \/ StartDetect
    \/ DetectDecode
    \/ DetectExtract
    \/ DetectLiveness
    \/ DetectSize
    \/ StartVerify
    \/ VerifyFetch
    \/ VerifyDecode
    \/ VerifyEngine
    \/ VerifyRatio
    \/ VerifyReturn
    \/ Respond

Spec == Init /\ [][Next]_vars

----------------------------------------------------------------------------
(* Properties *)

Resp == response[1]

Called(c) == \E i \in 1..Len(calls) : calls[i] = c

DetectDone == endpoint = "detect" /\ pc = "done"

VerifyDone == endpoint = "verify" /\ pc = "done"

(* The base64 field of the request in flight. *)
B64Field == IF endpoint = "detect" THEN payload.img ELSE payload.verimg

(* The engine returned exactly one face and it is live. *)
OneLiveFace ==
    /\ faces # None
    /\ Len(faces[1]) = 1
    /\ faces[1][1].is_real # Some(FALSE)

(* p is x/y as an integer percentage, truncated. *)
IsPercentOf(p, x, y) == p * y <= 100 * x /\ 100 * x < (p + 1) * y

(* q hundredths is x/y to the nearest hundredth. *)
IsNearestHundredth(q, x, y) ==
    /\ 2 * (100 * x - q * y) <= y
    /\ 2 * (q * y - 100 * x) <= y

(* C1: in /detect-face the checks run in the order face count, liveness,  *)
(* face size, and the response is the error of the first failing check:   *)
(* N > 1 faces give 400 naming N whatever the faces' liveness flags and    *)
(* sizes; one face with is_real = false gives 400 spoof whatever its       *)
(* size; the too-small error is given only for exactly one live face.      *)
(* The liveness step is reached only with exactly one face, the size step  *)
(* only with exactly one live face.                                        *)
C1_CheckOrder ==
    /\ (endpoint = "detect" /\ pc = "d_liveness") =>
           (faces # None /\ Len(faces[1]) = 1)
    /\ (endpoint = "detect" /\ pc = "d_size") => OneLiveFace
    /\ (DetectDone /\ faces # None) =>
           /\ Len(faces[1]) > 1 =>
                  /\ Resp.status = 400
                  /\ Resp.kind = "multiple_faces"
                  /\ Resp.value = <<Len(faces[1])>>
           /\ (Len(faces[1]) = 1 /\ faces[1][1].is_real = Some(FALSE)) =>
                  (Resp.status = 400 /\ Resp.kind = "spoof")
    /\ (DetectDone /\ Resp.kind = "too_small") => OneLiveFace

(* Two faces, the first a spoof with no height: the count error wins. *)
C1_Witness ==
    /\ DetectDone
    /\ faces # None
    /\ Len(faces[1]) = 2
    /\ faces[1][1].is_real = Some(FALSE)
    /\ faces[1][1].facial_area = None
    /\ faces[1][2].is_real = Some(TRUE)
    /\ Resp.kind = "multiple_faces"
    /\ Resp.value = <<2>>

(* C2: a /detect-face request whose image decodes and for which the       *)
(* extraction reports zero faces (the engine raises its detection error,   *)
(* or returns an empty list) is answered 400 no-face-detected.             *)
C2_ZeroFacesIs400 ==
    (/\ DetectDone
     /\ img # None
     /\ \/ faces = None /\ exc.type = "ValueError"
        \/ faces = Some(<<>>))
    => (Resp.status = 400 /\ Resp.kind = "no_face")

(* C3: in /verify, when the engine's verification succeeds and reports no *)
(* face height for the probe image, the request succeeds with a 200        *)
(* payload of is_match, distance, threshold, time and ratio.               *)
C3_NoHeightSucceeds ==
    (VerifyDone /\ result # None /\ Img2FaceHeight(result[1]) = 0)
    => /\ Resp.status = 200
       /\ Resp.body # None
       /\ DOMAIN Resp.body[1] =
              {"is_match", "distance", "threshold", "time", "ratio"}

(* C4: in /verify, a failed fetch or decode of regimg ends the request    *)
(* with 400 without the probe image being decoded or the engine invoked;   *)
(* the engine is invoked only after regimg, then verimg, were resolved.    *)
C4_FetchFirst ==
    endpoint = "verify" =>
        /\ (pc = "done" /\ baseimage = None) =>
               /\ Resp.status = 400
               /\ b64arg = None /\ img = None
               /\ ~Called("base64.b64decode")
               /\ ~Called("DeepFace.verify")
               /\ calls \in {<<"requests.get">>, <<"requests.get", "cv2.imdecode">>}
        /\ Called("DeepFace.verify") =>
               /\ baseimage # None /\ img # None
               /\ calls = <<"requests.get", "cv2.imdecode", "base64.b64decode",
                            "cv2.imdecode", "DeepFace.verify">>
        /\ Called("base64.b64decode") => baseimage # None

C4_Witness ==
    /\ VerifyDone
    /\ exc.type = "HTTPError"
    /\ Resp.status = 400
    /\ Resp.kind = "fetch_error"
    /\ calls = <<"requests.get">>

(* C5: the size gate is strict at 50% in both flows: for a face height    *)
(* h > 0 and an image height H, the too-small error (400) is given if and  *)
(* only if 2*h < H; otherwise the request succeeds.                        *)
C5_StrictHalf ==
    /\ (DetectDone /\ OneLiveFace /\ FaceHeight(faces[1][1]) > 0) =>
           IF 2 * FaceHeight(faces[1][1]) < img[1]
           THEN Resp.status = 400 /\ Resp.kind = "too_small"
           ELSE Resp.status = 200
    /\ (VerifyDone /\ result # None /\ Img2FaceHeight(result[1]) > 0) =>
           IF 2 * Img2FaceHeight(result[1]) < img[1]
           THEN Resp.status = 400 /\ Resp.kind = "too_small"
           ELSE Resp.status = 200

(* A probe face of exactly half the image height passes. *)
C5_Witness ==
    /\ VerifyDone
    /\ result # None
    /\ Img2FaceHeight(result[1]) = 2
    /\ img = Some(4)
    /\ Resp.status = 200

(* C6: exactly one live face (is_real true or omitted) of ratio >= 0.50   *)
(* gives a success with is_real = true, antispoof_score the engine's       *)
(* score (0 when omitted) and face_height_ratio the ratio to the nearest   *)
(* hundredth.                                                              *)
C6_Success ==
    (DetectDone /\ OneLiveFace /\ 2 * FaceHeight(faces[1][1]) >= img[1]) =>
        /\ Resp.status = 200
        /\ Resp.body # None
        /\ Resp.body[1].status = "success"
        /\ Resp.body[1].is_real = TRUE
        /\ Resp.body[1].antispoof_score =
               (IF faces[1][1].antispoof_score = None THEN 0
                ELSE faces[1][1].antispoof_score[1])
        /\ IsNearestHundredth(Resp.body[1].face_height_ratio,
                              FaceHeight(faces[1][1]), img[1])

(* is_real and the score omitted, 2/3 of the height: 0.67. *)
C6_Witness ==
    /\ DetectDone
    /\ OneLiveFace
    /\ faces[1][1].is_real = None
    /\ faces[1][1].antispoof_score = None
    /\ FaceHeight(faces[1][1]) = 2
    /\ img = Some(3)
    /\ Resp.status = 200
    /\ Resp.body[1].face_height_ratio = 67
    /\ Resp.body[1].antispoof_score = 0

(* C7: in both endpoints a base64 field that is malformed, or does not    *)
(* decode to an image, gives 400 and the engine is not invoked.            *)
C7_BadBase64Is400 ==
    /\ (b64arg # None /\ img = None) =>
           /\ pc = "done"
           /\ Resp.status = 400
           /\ ~Called("DeepFace.extract_faces")
           /\ ~Called("DeepFace.verify")
    /\ (b64arg # None /\ Len(DataChars(b64arg[1])) % 4 # 0) => img = None

(* A verimg with a prefix and three data characters. *)
C7_Witness ==
    /\ VerifyDone
    /\ payload.verimg = <<"A", ",", "A", "A", "A">>
    /\ exc.type = "binascii.Error"
    /\ Resp.status = 400
    /\ Resp.kind = "invalid_base64"

(* C8: in /verify, the engine's detection failure gives 400 with a        *)
(* face-detection-error message carrying the engine's message; 500 is      *)
(* given only for an exception that is neither that signal nor the         *)
(* too-small error, which reaches the caller unchanged as 400.             *)
C8_VerifyErrors ==
    (VerifyDone /\ Called("DeepFace.verify")) =>
        /\ exc.type = "ValueError" =>
               /\ Resp.status = 400
               /\ Resp.kind = "face_detection_error"
               /\ Resp.text = exc.msg
               /\ Resp.text \in EngineMsgs
        /\ Resp.status = 500 => exc.type \notin {"", "ValueError", "HTTPException"}
        /\ exc.type = "HTTPException" =>
               /\ Resp.status = 400
               /\ Resp.kind = "too_small"
               /\ ratio # None
               /\ 2 * ratio[1][1] < ratio[1][2]

C8_Witness ==
    /\ VerifyDone
    /\ Called("DeepFace.verify")
    /\ exc = [type |-> "ValueError", msg |-> "Spoof detected in given image"]
    /\ Resp.status = 400
    /\ Resp.text = "Spoof detected in given image"

AfterFirstComma(s) ==
    IF \A i \in 1..Len(s) : s[i] # ","
    THEN s
    ELSE LET i == CHOOSE k \in 1..Len(s) :
                      s[k] = "," /\ \A j \in 1..(k - 1) : s[j] # ","
         IN  SubSeq(s, i + 1, Len(s))

(* C10: the string handed to the base64 decoder is the whole remainder of *)
(* the payload after its first comma, and the payload itself when it has   *)
(* no comma.                                                               *)
C10_StripsFirstCommaOnly ==
    b64arg # None => b64arg[1] = AfterFirstComma(B64Field)

====
